---- MODULE Spec2Model ----
(***************************************************************************)
(* Model of the MP4-embedded TTML extractor (lib/text/mp4_ttml_parser.js)  *)
(* and of the ms-prefixed EME polyfill: its init-data normalisation and    *)
(* its MediaKeys and MediaKeySession (lib/polyfill/patchedmediakeys_ms.js).*)
(*                                                                         *)
(* Buffers are sequences of bytes.  Offsets are 0-based as in the source;  *)
(* the byte at offset p of buffer d is d[p + 1].                           *)
(*                                                                         *)
(* shaka.util.Mp4Parser, shaka.util.Pssh, shaka.util.BufferUtils,          *)
(* shaka.util.Uint8ArrayUtils and shaka.text.TtmlTextParser are not part   *)
(* of the sources at hand; they are modelled from the design document      *)
(* (sections 4.1 - 4.4 and 6).  shaka.util.PublicPromise,                  *)
(* shaka.util.FakeEventTarget and goog.asserts are not part of them        *)
(* either; they are modelled by their interface.                           *)
(***************************************************************************)
EXTENDS Integers, Sequences, FiniteSets, TLC

VARIABLES
  op,          \* the last operation called on the extractor ("none" at start)
  layout,      \* the box layout of the stream the caller is downloading
  cut,         \* number of bytes of the stream missing from the argument buffer
  data,        \* the argument buffer (bytes) as it is after the call
  ret,         \* the outcome of the call: returned value or thrown error
  trace,       \* the traversal context of the call's Mp4Parser.parse
  initData,    \* the init data last handed to the polyfill, as it is after the call
  normalised,  \* the value returned by the last normaliseInitData_ call
  encrypted,   \* the 'encrypted' event dispatched by the last msneedkey, if any
  first,       \* history: the first call made on the extractor instance
  session,     \* the MediaKeySession last created by MediaKeys.createSession
  promises,    \* the PublicPromise objects the session has created, in order
  natives,     \* the native MSMediaKeySession objects the session has created
  step,        \* what the last call or event handler of the polyfill did
  enableAsserts  \* the build: whether goog.asserts.assert throws

emeVars == <<session, promises, natives, step, enableAsserts>>

vars ==
  <<op, layout, cut, data, ret, trace, initData, normalised, encrypted, first,
    session, promises, natives, step, enableAsserts>>

----------------------------------------------------------------------------
(* Bounds of the model.                                                    *)

\* Largest number of top-level boxes in a generated MP4 buffer.
MaxBoxes == 2

\* Largest number of bytes cut off the end of a generated MP4 buffer.
MaxCut == 3

\* Largest number of boxes in a generated init-data buffer.
MaxPssh == 3

\* Largest number of bytes cut off the end of a generated init-data buffer.
MaxPsshCut == 2

----------------------------------------------------------------------------
(* Byte-level primitives (Box Cursor).                                     *)

Min(a, b) == IF a < b THEN a ELSE b

\* Big-endian encodings, used to build the input buffers.
U32(n) ==
  << (n \div 16777216) % 256, (n \div 65536) % 256, (n \div 256) % 256, n % 256 >>

\* The lengths of the model fit the low word.
U64(n) == U32(0) \o U32(n)

\* Big-endian reads at 0-based offset p.
readUint32(d, p) ==
  d[p + 1] * 16777216 + d[p + 2] * 65536 + d[p + 3] * 256 + d[p + 4]

\* A 64-bit value with a non-zero high word is beyond every buffer length;
\* it reads as the largest integer of the model.
readUint64(d, p) ==
  IF readUint32(d, p) = 0 THEN readUint32(d, p + 4) ELSE 2147483647

readFourCC(d, p) == SubSeq(d, p + 1, p + 4)

\* The bytes [p, q) of d, clamped to the buffer like TypedArray.subarray.
subarray(d, p, q) == SubSeq(d, Min(p, Len(d)) + 1, Min(q, Len(d)))

\* The four character codes of the box types, as their ASCII bytes.
typeFromString(name) ==
  CASE name = "moov" -> <<109, 111, 111, 118>>
    [] name = "trak" -> <<116, 114, 97, 107>>
    [] name = "mdia" -> <<109, 100, 105, 97>>
    [] name = "minf" -> <<109, 105, 110, 102>>
    [] name = "stbl" -> <<115, 116, 98, 108>>
    [] name = "stsd" -> <<115, 116, 115, 100>>
    [] name = "stpp" -> <<115, 116, 112, 112>>
    [] name = "wvtt" -> <<119, 118, 116, 116>>
    [] name = "mdat" -> <<109, 100, 97, 116>>
    [] name = "free" -> <<102, 114, 101, 101>>
    [] name = "pssh" -> <<112, 115, 115, 104>>

----------------------------------------------------------------------------
(* The external text-payload decoder (shaka.text.TtmlTextParser).  It is a *)
(* black box: the first-cue decoder yields one cue made of the whole       *)
(* payload, the full decoder yields one cue per payload byte.              *)

decode_first_cue(bytes) == [first |-> TRUE, text |-> bytes]

decode_all(bytes) == [i \in 1 .. Len(bytes) |-> [first |-> FALSE, text |-> <<bytes[i]>>]]

----------------------------------------------------------------------------
(* Box Parser (shaka.util.Mp4Parser).                                      *)

\* Length of a box header without extended size.
HeaderSize == 8

\* Length of a box header with the 64-bit extended size.
ExtHeaderSize == 16

\* Length of the version and flags of a full box.
FullBoxSize == 4

\* new Mp4Parser(): an empty registration table.
NewMp4Parser == [t \in {} |-> [full |-> FALSE, kind |-> "none", cb |-> "none"]]

\* parser.box(type, definition): the last registration of a type wins.
box(tbl, name, def) ==
  (typeFromString(name) :> [full |-> FALSE, kind |-> def.kind, cb |-> def.cb]) @@ tbl

\* parser.fullBox(type, definition).
fullBox(tbl, name, def) ==
  (typeFromString(name) :> [full |-> TRUE, kind |-> def.kind, cb |-> def.cb]) @@ tbl

\* The handler kinds of the registration table.
children == [kind |-> "children", cb |-> "none"]

sampleDescriptionDef == [kind |-> "sampleDescription", cb |-> "none"]

callback(cb) == [kind |-> "callback", cb |-> cb]

allData(cb) == [kind |-> "allData", cb |-> cb]

\* The traversal context of one parse call, with the variables the
\* callbacks of the extractor close over.
NewContext(partial) ==
  [ pos          |-> 0,        \* the traversal cursor
    done         |-> FALSE,    \* the stop flag
    err          |-> "none",   \* the error raised by the traversal
    calls        |-> <<>>,     \* the handlers invoked, in order
    stopAt       |-> 0,        \* number of handlers invoked when stop() ran
    visited      |-> <<>>,     \* the boxes the traversal has left, in order
    partial      |-> partial,  \* closure: partial
    sawSTPP      |-> FALSE,    \* closure: sawSTPP
    sawMDAT      |-> FALSE,    \* closure: sawMDAT
    payload      |-> <<>>,     \* closure: payload
    decoderCalls |-> <<>> ]    \* invocations of the external decoder

\* parser.stop().
stop(st) ==
  [st EXCEPT !.done = TRUE,
             !.stopAt = IF st.done THEN @ ELSE Len(st.calls)]

fail(st, code) == [st EXCEPT !.err = code]

----------------------------------------------------------------------------
(* The callbacks the extractor registers.                                  *)

\* Variant of onStpp that records the entry without stopping the traversal.
onStpp_noStop(st) == [st EXCEPT !.sawSTPP = TRUE]

\* The 'stpp' box callback of parseInit.
onStpp(st) == stop([st EXCEPT !.sawSTPP = TRUE])

\* Variant of onMdat that does not stop the traversal in first-cue mode.
onMdat_noStop(st, bytes) ==
  IF st.partial
    THEN [st EXCEPT
            !.sawMDAT = TRUE,
            !.payload = <<decode_first_cue(bytes)>>,
            !.decoderCalls = Append(@, [fn |-> "parseFirstCue", data |-> bytes])]
    ELSE [st EXCEPT
            !.sawMDAT = TRUE,
            !.payload = @ \o decode_all(bytes),
            !.decoderCalls = Append(@, [fn |-> "parseMedia", data |-> bytes])]

\* Variant of onMdat that replaces the payload instead of joining to it.
onMdat_overwrite(st, bytes) ==
  IF st.partial
    THEN stop([st EXCEPT
                 !.sawMDAT = TRUE,
                 !.payload = <<decode_first_cue(bytes)>>,
                 !.decoderCalls = Append(@, [fn |-> "parseFirstCue", data |-> bytes])])
    ELSE [st EXCEPT
            !.sawMDAT = TRUE,
            !.payload = decode_all(bytes),
            !.decoderCalls = Append(@, [fn |-> "parseMedia", data |-> bytes])]

\* The 'mdat' all-data callback of parseMediaInternal_.
onMdat(st, bytes) ==
  IF st.partial
    THEN stop([st EXCEPT
                 !.sawMDAT = TRUE,
                 !.payload = <<decode_first_cue(bytes)>>,
                 !.decoderCalls = Append(@, [fn |-> "parseFirstCue", data |-> bytes])])
    ELSE [st EXCEPT
            !.sawMDAT = TRUE,
            !.payload = @ \o decode_all(bytes),
            !.decoderCalls = Append(@, [fn |-> "parseMedia", data |-> bytes])]

invoke(cb, st, bytes) ==
  CASE cb = "onStpp" -> onStpp(st)
    [] cb = "onMdat" -> onMdat(st, bytes)

----------------------------------------------------------------------------
(* The traversal.                                                          *)

\* Fewer bytes remain in the scope than a box header needs: the scope ends
\* without error when partial, TruncatedInput otherwise.
shortHeader(st, scopeEnd, partial) ==
  IF partial THEN [st EXCEPT !.pos = scopeEnd] ELSE fail(st, "TruncatedInput")

\* Length of the header of the box whose 32-bit size field is size32.
headerLength(size32) == IF size32 = 1 THEN ExtHeaderSize ELSE HeaderSize

\* Variant of boxSize that takes the 32-bit size field at face value.
boxSize_literal(d, start, rem) == readUint32(d, start)

\* Declared length of the box at offset start, of which rem bytes remain in
\* the enclosing scope: 0 extends to the end of the scope, 1 takes the
\* length from the 64-bit extended size that follows the type.
boxSize(d, start, rem) ==
  LET size32 == readUint32(d, start)
  IN  CASE size32 = 0 -> rem
        [] size32 = 1 -> readUint64(d, start + HeaderSize)
        [] OTHER -> size32

\* Variant of nextCursor that continues where the handler stopped reading.
nextCursor_handler(bx, handlerPos) == handlerPos

\* Where the traversal continues after a box whose handler did not stop:
\* at the end computed from the header, not where the handler stopped
\* reading.
nextCursor(bx, handlerPos) == bx.end

\* Leave box bx, whose handler left its own cursor at st.pos.
leave(bx, st) ==
  IF st.err # "none" \/ st.done
    THEN st
    ELSE [st EXCEPT
            !.pos = nextCursor(bx, st.pos),
            !.visited = Append(@, [bx EXCEPT !.handlerPos = st.pos,
                                             !.after = nextCursor(bx, st.pos)])]

RECURSIVE parseNext(_, _, _, _, _, _, _)
RECURSIVE parseScope(_, _, _, _, _, _, _)
RECURSIVE parseEntries(_, _, _, _, _, _, _, _)

\* Mp4Parser.children: parse the boxes of [p, end) until the scope is
\* used up, an error is raised or a handler has stopped the traversal.
parseScope(tbl, d, p, end, path, partial, st) ==
  IF st.err # "none" \/ st.done \/ p >= end
    THEN [st EXCEPT !.pos = p]
    ELSE LET s2 == parseNext(tbl, d, p, end, path, partial, st)
         IN  parseScope(tbl, d, s2.pos, end, path, partial, s2)

\* The entry loop of Mp4Parser.sampleDescription: dispatch exactly n
\* length-prefixed sub-boxes of [p, end).
parseEntries(tbl, d, p, end, n, path, partial, st) ==
  IF st.err # "none" \/ st.done \/ n = 0
    THEN [st EXCEPT !.pos = p]
    ELSE IF end - p < HeaderSize
      THEN fail(st, "MalformedBox")
      ELSE LET s2 == parseNext(tbl, d, p, end, path, partial, st)
           IN  parseEntries(tbl, d, s2.pos, end, n - 1, path, partial, s2)

\* Mp4Parser.sampleDescription: read the entry count at p, then the entries.
sampleDescription(tbl, d, p, end, path, partial, st) ==
  IF end - p < 4
    THEN fail(st, "TruncatedInput")
    ELSE parseEntries(tbl, d, p + 4, end, readUint32(d, p), path, partial, st)

\* Dispatch box bx on the registration table.
dispatch(tbl, d, bx, partial, st) ==
  IF bx.type \notin DOMAIN tbl
    THEN leave(bx, [st EXCEPT !.pos = bx.end])
    ELSE
      LET def == tbl[bx.type]
          body == bx.start + bx.hdr
          p == IF def.full THEN body + FullBoxSize ELSE body
          st1 == [st EXCEPT !.pos = p,
                            !.calls = Append(@, [kind |-> def.kind, cb |-> def.cb,
                                                 start |-> bx.start,
                                                 path |-> bx.path])]
      IN  IF def.full /\ bx.end - body < FullBoxSize
            THEN IF partial
                   THEN leave(bx, [st EXCEPT !.pos = bx.end])
                   ELSE fail(st, "TruncatedInput")
            ELSE
              CASE def.kind = "children" ->
                     leave(bx, parseScope(tbl, d, p, bx.end, Append(bx.path, bx.type), partial,
                                         st1))
                [] def.kind = "sampleDescription" ->
                     leave(bx, sampleDescription(tbl, d, p, bx.end,
                                                 Append(bx.path, bx.type), partial, st1))
                [] def.kind = "callback" ->
                     leave(bx, invoke(def.cb, st1, <<>>))
                [] def.kind = "allData" ->
                     leave(bx, invoke(def.cb, [st1 EXCEPT !.pos = bx.end],
                                      subarray(d, p, bx.end)))

\* Mp4Parser.parseNext: read the header of the box at offset start of the
\* scope ending at scopeEnd and dispatch the box.
parseNext(tbl, d, start, scopeEnd, path, partial, st) ==
  LET rem == scopeEnd - start
  IN  IF rem < HeaderSize
        THEN shortHeader(st, scopeEnd, partial)
        ELSE
          LET size32 == readUint32(d, start)
              hdr == headerLength(size32)
          IN  IF rem < hdr
                THEN shortHeader(st, scopeEnd, partial)
                ELSE
                  LET size == boxSize(d, start, rem)
                      bx == [start |-> start,
                             type |-> readFourCC(d, start + 4),
                             size32 |-> size32,
                             size |-> size,
                             hdr |-> hdr,
                             end |-> Min(start + size, scopeEnd),
                             scopeEnd |-> scopeEnd,
                             path |-> path,
                             handlerPos |-> start,
                             after |-> start]
                  IN  IF size < hdr
                        THEN fail(st, "MalformedBox")
                        ELSE IF start + size > scopeEnd /\ ~partial
                          THEN fail(st, "MalformedBox")
                          ELSE dispatch(tbl, d, bx, partial, st)

\* Mp4Parser.parse(data, partial): traverse the whole buffer with a fresh
\* traversal context.
parse(tbl, d, partial, st) == parseScope(tbl, d, 0, Len(d), <<>>, partial, st)

----------------------------------------------------------------------------
(* shaka.text.Mp4TtmlParser.                                               *)

Returned(value) == [kind |-> "ok", code |-> "none", value |-> value]

Thrown(code) == [kind |-> "error", code |-> code, value |-> <<>>]

\* The parser parseInit builds.
initParser ==
  box(fullBox(box(box(box(box(box(NewMp4Parser,
      "moov", children),
      "trak", children),
      "mdia", children),
      "minf", children),
      "stbl", children),
      "stsd", sampleDescriptionDef),
      "stpp", callback("onStpp"))

\* The parser parseMediaInternal_ builds.
mediaParser == box(NewMp4Parser, "mdat", allData("onMdat"))

\* Variant of parseInit that does not check sawSTPP.
parseInit_noCheck(d) ==
  LET st == parse(initParser, d, FALSE, NewContext(FALSE))
  IN  [ ret |-> IF st.err # "none" THEN Thrown(st.err) ELSE Returned(<<>>),
        st |-> st,
        data |-> d ]

\* parseInit(data): the outcome, the traversal context, and the argument
\* buffer as the call leaves it (nothing is written to it).  The parser and
\* sawSTPP are locals of the call.
parseInit(d) ==
  LET st == parse(initParser, d, FALSE, NewContext(FALSE))
  IN  [ ret |-> IF st.err # "none" THEN Thrown(st.err)
                ELSE IF ~st.sawSTPP THEN Thrown("INVALID_MP4_TTML")
                ELSE Returned(<<>>),
        st |-> st,
        data |-> d ]

\* Variant of parseMediaInternal_ that does not check sawMDAT.
parseMediaInternal_noCheck(d, partial) ==
  LET st == parse(mediaParser, d, partial, NewContext(partial))
  IN  [ ret |-> IF st.err # "none" THEN Thrown(st.err) ELSE Returned(st.payload),
        st |-> st,
        data |-> d ]

\* Variant of parseMediaInternal_ that clears the bytes it has extracted.
parseMediaInternal_wipe(d, partial) ==
  LET st == parse(mediaParser, d, partial, NewContext(partial))
  IN  [ ret |-> IF st.err # "none" THEN Thrown(st.err)
                ELSE IF ~st.sawMDAT THEN Thrown("INVALID_MP4_TTML")
                ELSE Returned(st.payload),
        st |-> st,
        data |-> IF st.sawMDAT THEN [i \in 1 .. Len(d) |-> 0] ELSE d ]

\* Variant of parseMediaInternal_ that keeps its payload on the instance:
\* the traversal starts with what the call before it has left.
parseMediaInternal_carry(d, partial) ==
  LET st == parse(mediaParser, d, partial,
                  [NewContext(partial) EXCEPT !.payload = trace.payload])
  IN  [ ret |-> IF st.err # "none" THEN Thrown(st.err)
                ELSE IF ~st.sawMDAT THEN Thrown("INVALID_MP4_TTML")
                ELSE Returned(st.payload),
        st |-> st,
        data |-> d ]

\* Variant of parseMediaInternal_ that reports every call without an mdat
\* box as an invalid container, an aborted traversal included.
parseMediaInternal_wrap(d, partial) ==
  LET st == parse(mediaParser, d, partial, NewContext(partial))
  IN  [ ret |-> IF ~st.sawMDAT THEN Thrown("INVALID_MP4_TTML")
                ELSE IF st.err # "none" THEN Thrown(st.err)
                ELSE Returned(st.payload),
        st |-> st,
        data |-> d ]

\* parseMediaInternal_(data, time, partial).  The parser, sawMDAT and
\* payload are locals of the call; nothing is written to the buffer.
parseMediaInternal_(d, partial) ==
  LET st == parse(mediaParser, d, partial, NewContext(partial))
  IN  [ ret |-> IF st.err # "none" THEN Thrown(st.err)
                ELSE IF ~st.sawMDAT THEN Thrown("INVALID_MP4_TTML")
                ELSE Returned(st.payload),
        st |-> st,
        data |-> d ]

\* parseFirstCue(data, time): element 0 of the internal result (nothing when
\* the result is empty).
parseFirstCue(d) ==
  LET r == parseMediaInternal_(d, TRUE)
  IN  [ ret |-> IF r.ret.kind # "ok" THEN r.ret
                ELSE IF Len(r.ret.value) = 0 THEN Returned(<<>>)
                ELSE Returned(<<r.ret.value[1]>>),
        st |-> r.st,
        data |-> r.data ]

\* Variant of parseMedia that asks for a partial parse.
parseMedia_partial(d) == parseMediaInternal_(d, TRUE)

\* parseMedia(data, time).
parseMedia(d) == parseMediaInternal_(d, FALSE)

----------------------------------------------------------------------------
(* The argument buffers: serialised box layouts, cut short at the end.     *)

\* A box of a layout: mode "n" writes the box length into the size field,
\* "z" writes size 0 (the box runs to the end of its scope), "x" writes
\* size 1 followed by the 64-bit extended size, and "b" writes a size below
\* the length of the header (a malformed box).
Raw(name, mode, body) ==
  [type |-> name, mode |-> mode, kind |-> "raw", body |-> body, kids |-> <<>>,
   count |-> 0]

Kids(name, kids) ==
  [type |-> name, mode |-> "n", kind |-> "kids", body |-> <<>>, kids |-> kids,
   count |-> 0]

\* A sample description box: version and flags, entry count, entries.
Stsd(count, entries) ==
  [type |-> "stsd", mode |-> "n", kind |-> "stsd", body |-> <<>>, kids |-> entries,
   count |-> count]

RECURSIVE SerBox(_)
RECURSIVE SerSeq(_)

SerSeq(s) == IF Len(s) = 0 THEN <<>> ELSE SerBox(Head(s)) \o SerSeq(Tail(s))

SerBox(b) ==
  LET payload == CASE b.kind = "raw" -> b.body
                   [] b.kind = "kids" -> SerSeq(b.kids)
                   [] b.kind = "stsd" -> <<0, 0, 0, 0>> \o U32(b.count) \o SerSeq(b.kids)
      tag == typeFromString(b.type)
  IN  CASE b.mode = "n" -> U32(HeaderSize + Len(payload)) \o tag \o payload
        [] b.mode = "z" -> U32(0) \o tag \o payload
        [] b.mode = "x" -> U32(1) \o tag \o U64(ExtHeaderSize + Len(payload)) \o payload
        [] b.mode = "b" -> U32(FullBoxSize) \o tag \o payload

\* moov > trak > mdia > minf > stbl > (the given boxes).
Chain(stblKids) ==
  Kids("moov", <<Kids("trak", <<Kids("mdia", <<Kids("minf",
       <<Kids("stbl", stblKids)>>)>>)>>)>>)

Entry(name) == Raw(name, "n", <<7>>)

\* The same chain with 'mdia' replaced by a box of an unregistered type.
BrokenChain ==
  Kids("moov", <<Kids("trak", <<Raw("free", "n",
       SerSeq(<<Kids("minf", <<Kids("stbl",
                <<Stsd(1, <<Entry("stpp")>>)>>)>>)>>))>>)>>)

\* Top-level boxes that declare their own length.
TopItems ==
  { Raw("mdat", "n", <<1, 2>>),
    Raw("mdat", "x", <<4, 5>>),
    Raw("free", "n", <<9>>),
    Entry("stpp"),
    Chain(<<Stsd(1, <<Entry("stpp")>>)>>),
    Chain(<<Stsd(1, <<Entry("wvtt")>>)>>),
    Chain(<<Stsd(2, <<Entry("stpp"), Entry("stpp")>>)>>),
    Chain(<<Stsd(0, <<Entry("stpp")>>), Raw("free", "n", <<>>)>>),
    Chain(<<Stsd(1, <<Entry("wvtt"), Entry("wvtt")>>),
            Stsd(2, <<Entry("wvtt"), Entry("stpp")>>)>>),
    Chain(<<Stsd(2, <<Entry("wvtt")>>)>>),
    BrokenChain }

\* Top-level boxes of size 0: they can only come last.
ZItems ==
  { Raw("mdat", "z", <<6, 7>>),
    Raw("free", "z", <<8>>) }

Layouts ==
  { l \in UNION { [1 .. n -> TopItems \cup ZItems] : n \in 0 .. MaxBoxes } :
      \A i \in 1 .. Len(l) - 1 : l[i] \notin ZItems }

\* The serialised layout without its last c bytes.
Buffer(l, c) ==
  LET s == SerSeq(l)
  IN  SubSeq(s, 1, Len(s) - Min(c, Len(s)))

----------------------------------------------------------------------------
(* PSSH boundary scanner (shaka.util.Pssh) and the buffer utilities.       *)

RECURSIVE scanPssh(_, _, _)

\* The flat scan from offset p: record [start, end) of every full box whose
\* header is well formed and whose declared end lies within the buffer;
\* stop at the first box that is not, keeping what was found.
scanPssh(d, p, acc) ==
  LET rem == Len(d) - p
  IN  IF rem < HeaderSize
        THEN acc
        ELSE
          LET hdr == headerLength(readUint32(d, p))
          IN  IF rem < hdr
                THEN acc
                ELSE
                  LET size == boxSize(d, p, rem)
                  IN  IF size < hdr + FullBoxSize \/ p + size > Len(d)
                        THEN acc
                        ELSE scanPssh(d, p + size,
                                      Append(acc, [start |-> p, end |-> p + size]))

\* Variant of dataBoundaries whose records end on the last byte of a box.
dataBoundaries_inclusive(d) ==
  LET found == scanPssh(d, 0, <<>>)
  IN  [i \in 1 .. Len(found) |-> [start |-> found[i].start, end |-> found[i].end - 1]]

\* new shaka.util.Pssh(initData).dataBoundaries
dataBoundaries(d) == scanPssh(d, 0, <<>>)

\* shaka.util.BufferUtils.equal: same length and the same bytes.
equal(a, b) == Len(a) = Len(b) /\ \A i \in 1 .. Len(a) : a[i] = b[i]

RECURSIVE concat(_)

\* shaka.util.Uint8ArrayUtils.concat: a new array of all the bytes in order.
concat(arrays) ==
  IF Len(arrays) = 0 THEN <<>> ELSE Head(arrays) \o concat(Tail(arrays))

----------------------------------------------------------------------------
(* shaka.polyfill.PatchedMediaKeysMs: init data.                           *)

\* A value of type ?Uint8Array: null, or an array of bytes.
NullData == [isNull |-> TRUE, bytes |-> <<>>]

Bytes(d) == [isNull |-> FALSE, bytes |-> d]

\* A returned array: same tells whether it is the argument object itself.
SameArray(arg) == [isNull |-> arg.isNull, same |-> TRUE, bytes |-> arg.bytes]

NewArray(d) == [isNull |-> FALSE, same |-> FALSE, bytes |-> d]

\* Variant of singlePssh that lets a single boundary through.
singlePssh_strict(boundaries) == Len(boundaries) < 1

\* Whether normaliseInitData_ returns the original array: at most one pssh.
singlePssh(boundaries) == Len(boundaries) <= 1

\* The slice of the init data taken for one boundary.
currPssh(d, dataBoundary) == subarray(d, dataBoundary.start, dataBoundary.end + 1)

RECURSIVE dedupe(_, _)

\* The de-duplication loop: keep the first occurrence of every slice.
dedupe(unfiltered, deduped) ==
  IF Len(unfiltered) = 0
    THEN deduped
    ELSE LET x == Head(unfiltered)
             found == \E i \in 1 .. Len(deduped) : equal(deduped[i], x)
         IN  dedupe(Tail(unfiltered), IF found THEN deduped ELSE Append(deduped, x))

\* normaliseInitData_(initData): the value returned, and the argument as
\* the call leaves it (the slices are views, the result is a new array).
normaliseInitData_(arg) ==
  [ value |->
      IF arg.isNull
        THEN SameArray(arg)
        ELSE
          LET boundaries == dataBoundaries(arg.bytes)
          IN  IF singlePssh(boundaries)
                THEN SameArray(arg)
                ELSE
                  LET unfilteredInitDatas ==
                        [i \in 1 .. Len(boundaries) |->
                           currPssh(arg.bytes, boundaries[i])]
                  IN  NewArray(concat(dedupe(unfilteredInitDatas, <<>>))),
    arg |-> arg ]

----------------------------------------------------------------------------
(* The init data of msneedkey events: concatenated pssh boxes.             *)

\* A version 0 pssh box: version and flags, system id, data size, data.
PsshBox(systemByte, psshData) ==
  Raw("pssh", "n",
      <<0, 0, 0, 0>> \o [i \in 1 .. 16 |-> systemByte] \o U32(Len(psshData))
        \o psshData)

\* A box whose size field is below the length of its header.
BadPssh == Raw("pssh", "b", <<0, 0, 0, 0>>)

PsshItems ==
  { PsshBox(1, <<>>),
    PsshBox(2, <<>>),
    PsshBox(1, <<5, 6, 7, 8>>),
    BadPssh }

PsshLayouts == UNION { [1 .. n -> PsshItems] : n \in 0 .. MaxPssh }

----------------------------------------------------------------------------
(* shaka.polyfill.PatchedMediaKeysMs.MediaKeys and MediaKeySession.        *)
(*                                                                         *)
(* The operations work on a record w of the session, the promises and the  *)
(* native sessions it has created, and the account of the running call.    *)
(* Promises and native sessions are referred to by their index; 0 is null. *)

MaxPromises == 2
MaxNatives == 2

\* MSMediaKeyError codes.
MS_MEDIA_KEYERR_UNKNOWN == 1
MS_MEDIA_KEYERR_OUTPUT == 4
MS_MEDIA_KEYERR_HARDWARECHANGE == 5
MS_MEDIA_KEYERR_DOMAIN == 6

\* The codes a native session reports in the model: the two that stand for
\* an output restriction, and two of the others.
Codes ==
  { MS_MEDIA_KEYERR_UNKNOWN, MS_MEDIA_KEYERR_OUTPUT,
    MS_MEDIA_KEYERR_HARDWARECHANGE, MS_MEDIA_KEYERR_DOMAIN }

\* new MediaKeyStatusMap()
NewMediaKeyStatusMap == [size |-> 0, status_ |-> "undefined"]

\* MediaKeyStatusMap.setStatus(status)
setStatus(status) ==
  [size |-> IF status = "undefined" THEN 0 ELSE 1, status_ |-> status]

\* No session has been created.
NoSession ==
  [ created |-> FALSE,
    nativeMediaKeySession_ |-> 0,
    generateRequestPromise_ |-> 0,
    updatePromise_ |-> 0,
    listening |-> {},
    sessionId |-> "",
    closed |-> "pending",
    keyStatuses |-> NewMediaKeyStatusMap ]

\* new MediaKeySession(nativeMediaKeys, sessionType)
NewMediaKeySession == [NoSession EXCEPT !.created = TRUE]

\* The account of a call: its name and argument (for a handler, the native
\* session that fired the event), what it threw, the promise it returned,
\* the events it dispatched and the assertions that failed.
NoStep ==
  [ name |-> "none", arg |-> "none", target |-> 0, thrown |-> "none",
    returned |-> 0, dispatched |-> <<>>, failed |-> <<>> ]

\* The argument of the account of a call that goes through to the native
\* object: whether the native method throws.
Native(nativeThrows) == IF nativeThrows THEN "native throws" ELSE "native returns"

Begin(w, name, arg) ==
  [w EXCEPT !.step = [NoStep EXCEPT !.name = name, !.arg = arg]]

throw(w, exception) == [w EXCEPT !.step.thrown = exception]

\* FakeEventTarget.dispatchEvent
dispatchEvent(w, type, messageType) ==
  [w EXCEPT !.step.dispatched = Append(@, [type |-> type, messageType |-> messageType])]

\* goog.asserts.assert(condition, message): a failed assertion throws in a
\* build with assertions and is compiled out otherwise.
goog_asserts_assert(w, condition, message) ==
  IF condition
    THEN w
    ELSE [w EXCEPT !.step.failed = Append(@, message),
                   !.step.thrown = IF enableAsserts THEN "AssertionError" ELSE @]

\* new shaka.util.PublicPromise()
NewPublicPromise(w, kind) ==
  [w EXCEPT !.promises = Append(@, [kind |-> kind, state |-> "pending", settled |-> 0])]

\* PublicPromise.resolve / reject: the first call settles the promise, a
\* later call changes nothing; settled counts the calls.
settle(w, p, state) ==
  [w EXCEPT !.promises[p] =
     [@ EXCEPT !.state = IF @ = "pending" THEN state ELSE @,
               !.settled = @ + 1]]

\* updateKeyStatus_(status)
updateKeyStatus_(w, status) ==
  dispatchEvent([w EXCEPT !.session.keyStatuses = setStatus(status)],
                "keystatuseschange", "none")

\* The session types createSession is called with; "undefined" stands for
\* an omitted argument.
SessionTypes == {"undefined", "", "temporary", "persistent-license"}

\* JavaScript's sessionType || 'temporary'.
orTemporary(sessionType) ==
  IF sessionType \in {"undefined", ""} THEN "temporary" ELSE sessionType

\* Variant of createSession that accepts every session type.
createSession_any(w, sessionType) ==
  [Begin(w, "createSession", sessionType) EXCEPT
     !.session = NewMediaKeySession, !.promises = <<>>, !.natives = <<>>]

\* MediaKeys.createSession(sessionType).  The promises and native sessions
\* recorded are those of the session last created.
createSession(w, sessionType) ==
  LET b == Begin(w, "createSession", sessionType)
  IN  IF orTemporary(sessionType) # "temporary"
        THEN throw(b, "TypeError")
        ELSE [b EXCEPT !.session = NewMediaKeySession,
                       !.promises = <<>>,
                       !.natives = <<>>]

\* generateRequest(initDataType, initData); nativeThrows tells whether the
\* native createSession throws.
generateRequest(w, nativeThrows) ==
  LET b == NewPublicPromise(Begin(w, "generateRequest", Native(nativeThrows)), "generateRequest")
      p == Len(b.promises)
      c == [b EXCEPT !.session.generateRequestPromise_ = p, !.step.returned = p]
  IN  IF nativeThrows
        THEN settle(c, p, "rejected")
        ELSE
          LET n == Len(c.natives) + 1
              d == [c EXCEPT !.natives = Append(@, [error |-> 0]),
                             !.session.nativeMediaKeySession_ = n,
                             !.session.listening = @ \cup {n}]
          IN  updateKeyStatus_(d, "status-pending")

\* update(response); nativeThrows tells whether the native update throws.
\* Without a native session the call on null throws a TypeError.
update(w, nativeThrows) ==
  LET b == NewPublicPromise(Begin(w, "update", Native(nativeThrows)), "update")
      p == Len(b.promises)
      c == [b EXCEPT !.session.updatePromise_ = p, !.step.returned = p]
  IN  IF c.session.nativeMediaKeySession_ = 0 \/ nativeThrows
        THEN settle(c, p, "rejected")
        ELSE c

\* close(); nativeThrows tells whether the native close throws.
close(w, nativeThrows) ==
  LET b == Begin(w, "close", Native(nativeThrows))
  IN  IF b.session.nativeMediaKeySession_ = 0 \/ nativeThrows
        THEN [b EXCEPT !.session.closed = IF @ = "pending" THEN "rejected" ELSE @]
        ELSE [b EXCEPT !.session.closed = IF @ = "pending" THEN "resolved" ELSE @,
                       !.session.listening = {}]

\* A native event of the native session target.
NativeEvent(type, target) == [type |-> type, target |-> target]

\* onMsKeyMessage_(event)
onMsKeyMessage_(w, event) ==
  LET b == [Begin(w, "onMsKeyMessage_", event.type) EXCEPT !.step.target = event.target]
      a == goog_asserts_assert(b, b.session.generateRequestPromise_ # 0,
                  "generateRequestPromise_ not set in onMsKeyMessage_")
  IN  IF a.step.thrown # "none"
        THEN a
        ELSE
          LET c == IF a.session.generateRequestPromise_ # 0
                     THEN [settle(a, a.session.generateRequestPromise_, "resolved")
                             EXCEPT !.session.generateRequestPromise_ = 0]
                     ELSE a
              isNew == c.session.keyStatuses.status_ = "undefined"
          IN  dispatchEvent(c, "message",
                            IF isNew THEN "license-request" ELSE "license-renewal")

\* onMsKeyAdded_(event)
onMsKeyAdded_(w, event) ==
  LET b == [Begin(w, "onMsKeyAdded_", event.type) EXCEPT !.step.target = event.target]
  IN  IF b.session.generateRequestPromise_ # 0
        THEN
          LET a == goog_asserts_assert(b, b.session.updatePromise_ = 0,
                          "updatePromise_ and generateRequestPromise_ set in onMsKeyAdded_")
          IN  IF a.step.thrown # "none"
                THEN a
                ELSE [settle(updateKeyStatus_(a, "usable"),
                             a.session.generateRequestPromise_, "resolved")
                        EXCEPT !.session.generateRequestPromise_ = 0]
        ELSE
          LET a == goog_asserts_assert(b, b.session.updatePromise_ # 0,
                          "updatePromise_ not set in onMsKeyAdded_")
          IN  IF a.step.thrown # "none"
                THEN a
                ELSE IF a.session.updatePromise_ # 0
                  THEN [settle(updateKeyStatus_(a, "usable"),
                               a.session.updatePromise_, "resolved")
                          EXCEPT !.session.updatePromise_ = 0]
                  ELSE a

\* onMsKeyError_(event): the error is read from the session's current
\* native session; reading the code of a null error throws a TypeError.
onMsKeyError_(w, event) ==
  LET b == [Begin(w, "onMsKeyError_", event.type) EXCEPT !.step.target = event.target]
      error == b.natives[b.session.nativeMediaKeySession_].error
  IN  IF b.session.generateRequestPromise_ # 0
        THEN [settle(b, b.session.generateRequestPromise_, "rejected")
                EXCEPT !.session.generateRequestPromise_ = 0]
        ELSE IF b.session.updatePromise_ # 0
          THEN [settle(b, b.session.updatePromise_, "rejected")
                  EXCEPT !.session.updatePromise_ = 0]
          ELSE IF error = 0
            THEN throw(b, "TypeError")
            ELSE IF error \in {MS_MEDIA_KEYERR_OUTPUT, MS_MEDIA_KEYERR_HARDWARECHANGE}
              THEN updateKeyStatus_(b, "output-not-allowed")
              ELSE updateKeyStatus_(b, "internal-error")

----------------------------------------------------------------------------
(* The operations.                                                         *)

NoRet == [kind |-> "none", code |-> "none", value |-> <<>>]

NoEvent == [fired |-> FALSE, initData |-> SameArray(NullData)]

\* No session of the polyfill exists.
NoEme ==
  /\ session = NoSession
  /\ promises = <<>>
  /\ natives = <<>>
  /\ step = NoStep
  /\ enableAsserts = FALSE

\* No call has been made on the instance yet.
NoFirst == [op |-> "none", cut |-> 0, ret |-> NoRet, before |-> "none"]

Init ==
  /\ op = "none"
  /\ layout \in Layouts
  /\ cut = 0
  /\ data = <<>>
  /\ ret = NoRet
  /\ trace = NewContext(FALSE)
  /\ initData = NullData
  /\ normalised = SameArray(NullData)
  /\ encrypted = NoEvent
  /\ first = NoFirst
  /\ NoEme

\* A call of the extractor on the part of the stream downloaded so far.
Call(name, c, r) ==
  /\ op' = name
  /\ cut' = c
  /\ data' = r.data
  /\ ret' = r.ret
  /\ trace' = r.st
  /\ UNCHANGED <<layout, initData, normalised, encrypted>>
  /\ UNCHANGED emeVars

ParseInit ==
  /\ \E c \in 0 .. MaxCut :
       Call("parseInit", c, parseInit(Buffer(layout, c)))
  /\ UNCHANGED first

ParseFirstCue ==
  /\ \E c \in 0 .. MaxCut :
       Call("parseFirstCue", c, parseFirstCue(Buffer(layout, c)))
  /\ UNCHANGED first

ParseMedia ==
  /\ \E c \in 0 .. MaxCut :
       Call("parseMedia", c, parseMedia(Buffer(layout, c)))
  /\ UNCHANGED first

Next == ParseInit \/ ParseFirstCue \/ ParseMedia

Spec == Init /\ [][Next]_vars

----------------------------------------------------------------------------
(* The init-data operations of the polyfill.                               *)

InitPssh ==
  /\ op = "none"
  /\ layout \in PsshLayouts
  /\ cut = 0
  /\ data = <<>>
  /\ ret = NoRet
  /\ trace = NewContext(FALSE)
  /\ initData = NullData
  /\ normalised = SameArray(NullData)
  /\ encrypted = NoEvent
  /\ first = NoFirst
  /\ NoEme

\* The init data of a native event: null, or the stream's pssh boxes
\* without the last c bytes.
EventData(isNull, c) == IF isNull THEN NullData ELSE Bytes(Buffer(layout, c))

\* A direct call of normaliseInitData_.
NormaliseInitData ==
  \E isNull \in BOOLEAN, c \in 0 .. MaxPsshCut :
    /\ op' = "normaliseInitData_"
    /\ cut' = c
    /\ initData' = normaliseInitData_(EventData(isNull, c)).arg
    /\ normalised' = normaliseInitData_(EventData(isNull, c)).value
    /\ UNCHANGED <<layout, data, ret, trace, encrypted, first>>
    /\ UNCHANGED emeVars

\* onMsNeedKey_(event): nothing is dispatched for an event without init
\* data; otherwise an 'encrypted' event carries the normalised init data.
OnMsNeedKey ==
  \E isNull \in BOOLEAN, c \in 0 .. MaxPsshCut :
    /\ op' = "onMsNeedKey_"
    /\ cut' = c
    /\ IF isNull
         THEN /\ initData' = EventData(isNull, c)
              /\ encrypted' = NoEvent
              /\ UNCHANGED normalised
         ELSE /\ initData' = normaliseInitData_(EventData(isNull, c)).arg
              /\ normalised' = normaliseInitData_(EventData(isNull, c)).value
              /\ encrypted' =
                   [fired |-> TRUE,
                    initData |-> normaliseInitData_(EventData(isNull, c)).value]
    /\ UNCHANGED <<layout, data, ret, trace, first>>
    /\ UNCHANGED emeVars

NextPssh == NormaliseInitData \/ OnMsNeedKey

SpecPssh == InitPssh /\ [][NextPssh]_vars

----------------------------------------------------------------------------
(* One extractor instance used for call after call, and the extractor next *)
(* to the polyfill's init-data operations on the same buffers.             *)

ReuseLayouts ==
  { << Raw("mdat", "n", <<1, 2>>) >>,
    << Raw("mdat", "n", <<1, 2>>), Raw("mdat", "x", <<4, 5>>) >>,
    << Raw("free", "n", <<9>>), Raw("mdat", "z", <<6, 7>>) >>,
    << Chain(<<Stsd(1, <<Entry("stpp")>>)>>), Raw("mdat", "n", <<1, 2>>) >>,
    << Chain(<<Stsd(2, <<Entry("wvtt")>>)>>) >>,
    << PsshBox(1, <<>>), PsshBox(1, <<>>) >>,
    << PsshBox(1, <<5, 6, 7, 8>>), BadPssh, PsshBox(2, <<>>) >>,
    << PsshBox(1, <<>>), PsshBox(2, <<>>), Raw("mdat", "n", <<1, 2>>) >> }

InitReuse ==
  /\ op = "none"
  /\ layout \in ReuseLayouts
  /\ cut = 0
  /\ data = <<>>
  /\ ret = NoRet
  /\ trace = NewContext(FALSE)
  /\ initData = NullData
  /\ normalised = SameArray(NullData)
  /\ encrypted = NoEvent
  /\ first = NoFirst
  /\ NoEme

\* How the last call on the extractor ended.
LastOutcome ==
  CASE ret.kind = "none" -> "none"
    [] ret.kind = "error" -> "failed"
    [] ret.kind = "ok" /\ trace.done -> "stopped"
    [] OTHER -> "completed"

\* The history kept of the calls on the instance: the first call and its
\* outcome, and how the call before the last one ended.
Remember(name, c, r) ==
  first' = IF first.op = "none"
             THEN [op |-> name, cut |-> c, ret |-> r.ret, before |-> "none"]
             ELSE [first EXCEPT !.before = LastOutcome]

ReuseParseInit ==
  \E c \in 0 .. MaxCut :
    /\ Call("parseInit", c, parseInit(Buffer(layout, c)))
    /\ Remember("parseInit", c, parseInit(Buffer(layout, c)))

ReuseParseFirstCue ==
  \E c \in 0 .. MaxCut :
    /\ Call("parseFirstCue", c, parseFirstCue(Buffer(layout, c)))
    /\ Remember("parseFirstCue", c, parseFirstCue(Buffer(layout, c)))

ReuseParseMedia ==
  \E c \in 0 .. MaxCut :
    /\ Call("parseMedia", c, parseMedia(Buffer(layout, c)))
    /\ Remember("parseMedia", c, parseMedia(Buffer(layout, c)))

NextReuse == ReuseParseInit \/ ReuseParseFirstCue \/ ReuseParseMedia

SpecReuse == InitReuse /\ [][NextReuse]_vars

NextBuffers == Next \/ NextPssh

SpecBuffers == InitReuse /\ [][NextBuffers]_vars

----------------------------------------------------------------------------
(* The sessions of the polyfill: the application calls createSession,      *)
(* generateRequest, update and close in any order, and a native session    *)
(* the polyfill listens to fires mskeymessage, mskeyadded and mskeyerror   *)
(* in any order.                                                           *)

InitEme ==
  /\ op = "none"
  /\ layout = <<>>
  /\ cut = 0
  /\ data = <<>>
  /\ ret = NoRet
  /\ trace = NewContext(FALSE)
  /\ initData = NullData
  /\ normalised = SameArray(NullData)
  /\ encrypted = NoEvent
  /\ first = NoFirst
  /\ session = NoSession
  /\ promises = <<>>
  /\ natives = <<>>
  /\ step = NoStep
  /\ enableAsserts \in BOOLEAN

streamVars ==
  <<op, layout, cut, data, ret, trace, initData, normalised, encrypted, first>>

World == [session |-> session, promises |-> promises, natives |-> natives,
          step |-> step]

\* The state a call or handler leaves.
Apply(w) ==
  /\ session' = w.session
  /\ promises' = w.promises
  /\ natives' = w.natives
  /\ step' = w.step
  /\ UNCHANGED enableAsserts
  /\ UNCHANGED streamVars

CreateSession ==
  \E sessionType \in SessionTypes : Apply(createSession(World, sessionType))

GenerateRequest ==
  /\ session.created
  /\ Len(promises) < MaxPromises
  /\ \E nativeThrows \in BOOLEAN :
       /\ nativeThrows \/ Len(natives) < MaxNatives
       /\ Apply(generateRequest(World, nativeThrows))

Update ==
  /\ session.created
  /\ Len(promises) < MaxPromises
  /\ \E nativeThrows \in BOOLEAN : Apply(update(World, nativeThrows))

Close ==
  /\ session.created
  /\ \E nativeThrows \in BOOLEAN : Apply(close(World, nativeThrows))

\* A native session the polyfill listens to fires mskeymessage.
MsKeyMessage ==
  \E n \in session.listening :
    Apply(onMsKeyMessage_(World, NativeEvent("mskeymessage", n)))

\* A native session the polyfill listens to fires mskeyadded.
MsKeyAdded ==
  \E n \in session.listening :
    Apply(onMsKeyAdded_(World, NativeEvent("mskeyadded", n)))

\* A native session the polyfill listens to sets its error and fires
\* mskeyerror.
MsKeyError ==
  \E n \in session.listening, code \in Codes :
    Apply(onMsKeyError_([World EXCEPT !.natives[n].error = code],
                        NativeEvent("mskeyerror", n)))

NextEme ==
  \/ CreateSession
  \/ GenerateRequest
  \/ Update
  \/ Close
  \/ MsKeyMessage
  \/ MsKeyAdded
  \/ MsKeyError

SpecEme == InitEme /\ [][NextEme]_vars

----------------------------------------------------------------------------
(* The layout of the argument buffer, against which the outcome of a call  *)
(* is judged.                                                              *)

RECURSIVE TopStart(_)

\* Offset of top-level box i of the stream.
TopStart(i) == IF i = 1 THEN 0 ELSE TopStart(i - 1) + Len(SerBox(layout[i - 1]))

TopHdr(i) == IF layout[i].mode = "x" THEN ExtHeaderSize ELSE HeaderSize

\* End of top-level box i in the argument buffer.
TopEnd(i) == Min(TopStart(i) + Len(SerBox(layout[i])), Len(data))

\* The header of top-level box i lies within the argument buffer.
Present(i) == TopStart(i) + TopHdr(i) <= Len(data)

\* The payload bytes of top-level box i that the argument buffer holds.
TopPayload(i) == subarray(data, TopStart(i) + TopHdr(i), TopEnd(i))

\* The top-level mdat boxes of the argument buffer, in file order.
Mdats ==
  SelectSeq([i \in 1 .. Len(layout) |-> i],
            LAMBDA i : layout[i].type = "mdat" /\ Present(i))

\* The argument buffer holds the whole stream.
Complete == Len(data) = Len(SerSeq(layout))

\* The argument buffer ends in the middle of the header of a top-level box.
MidHeader ==
  \E i \in 1 .. Len(layout) :
    TopStart(i) < Len(data) /\ Len(data) < TopStart(i) + TopHdr(i)

\* Some handler invocation of the traversal ran callback cb.
Invoked(cb) == \E i \in 1 .. Len(trace.calls) : trace.calls[i].cb = cb

\* The traversal ran the 'stpp' callback at the end of the registered chain.
ChainPath ==
  << typeFromString("moov"), typeFromString("trak"), typeFromString("mdia"),
     typeFromString("minf"), typeFromString("stbl"), typeFromString("stsd") >>

ChainReachesStpp ==
  \E i \in 1 .. Len(trace.calls) :
    trace.calls[i].cb = "onStpp" /\ trace.calls[i].path = ChainPath

InvalidContainer == Thrown("INVALID_MP4_TTML")

----------------------------------------------------------------------------
(* Claims about the extractor.                                             *)

\* C1 as stated: parseInit returns normally exactly when the traversal
\* reaches an 'stpp' entry through moov > trak > mdia > minf > stbl > stsd,
\* and signals INVALID_MP4_TTML for every other buffer.
C1_AsStated ==
  op = "parseInit" =>
    /\ ret.kind = "ok" <=> ChainReachesStpp
    /\ ~ChainReachesStpp => ret = InvalidContainer

\* C1 amended: parseInit returns normally exactly when the traversal runs
\* the 'stpp' handler, wherever the box sits among the registered boxes; if
\* the traversal completes without error and without running it, parseInit
\* signals INVALID_MP4_TTML; an error of the traversal is signalled as it
\* is.  The minimal tree with an 'stpp' entry succeeds, the same tree with
\* a 'wvtt' entry signals INVALID_MP4_TTML.
C1_InitCheck ==
  op = "parseInit" =>
    /\ ret.kind = "ok" <=> Invoked("onStpp")
    /\ (~Invoked("onStpp") /\ trace.err = "none") => ret = InvalidContainer
    /\ trace.err # "none" => (~Invoked("onStpp") /\ ret = Thrown(trace.err))
    /\ (Complete /\ layout = <<Chain(<<Stsd(1, <<Entry("stpp")>>)>>)>>)
         => (ret.kind = "ok" /\ ChainReachesStpp)
    /\ (Complete /\ layout = <<Chain(<<Stsd(1, <<Entry("wvtt")>>)>>)>>)
         => ret = InvalidContainer

\* C1 witness: parseInit has returned normally for an 'stpp' box that is not
\* an entry at the end of the chain.
C1_Witness ==
  /\ op = "parseInit"
  /\ ret.kind = "ok"
  /\ Invoked("onStpp")
  /\ ~ChainReachesStpp

\* C2: in first-cue mode, for a buffer with one or more top-level mdat
\* boxes, the first-cue decoder is invoked exactly once, on the payload of
\* the first mdat, and the value returned is that one decoded cue.
C2_FirstCueOnly ==
  (op = "parseFirstCue" /\ Len(Mdats) > 0) =>
    /\ trace.decoderCalls = <<[fn |-> "parseFirstCue", data |-> TopPayload(Mdats[1])]>>
    /\ ret = Returned(<<decode_first_cue(TopPayload(Mdats[1]))>>)

\* C2 witness: first-cue mode has run on a buffer with two mdat boxes of
\* different payloads.
C2_Witness ==
  /\ op = "parseFirstCue"
  /\ Len(Mdats) = 2
  /\ TopPayload(Mdats[1]) # TopPayload(Mdats[2])
  /\ Len(TopPayload(Mdats[2])) > 0
  /\ ret.kind = "ok"

\* The decoder invocations and the result expected of full extraction.
ExpectedCalls ==
  [k \in 1 .. Len(Mdats) |-> [fn |-> "parseMedia", data |-> TopPayload(Mdats[k])]]

ExpectedCues == concat([k \in 1 .. Len(Mdats) |-> decode_all(TopPayload(Mdats[k]))])

\* C3: in full-extraction mode every top-level mdat box is handed to the
\* full-payload decoder exactly once, in file order, and the result is the
\* concatenation of the decoder's results in that order; a whole stream
\* with an mdat box is extracted without error.
C3_FullExtraction ==
  op = "parseMedia" =>
    /\ ret.kind = "ok" =>
         /\ trace.decoderCalls = ExpectedCalls
         /\ ret.value = ExpectedCues
    /\ (Complete /\ Len(Mdats) > 0) => ret.kind = "ok"

\* C3 witness: full extraction has returned the cues of two mdat boxes.
C3_Witness ==
  /\ op = "parseMedia"
  /\ ret.kind = "ok"
  /\ Len(Mdats) = 2
  /\ TopPayload(Mdats[1]) # TopPayload(Mdats[2])
  /\ Len(ret.value) = 4

\* C4: in both modes, when the traversal completes without observing an
\* mdat box, media extraction signals INVALID_MP4_TTML, returns no payload
\* and never invokes the decoder.
C4_NoMdat ==
  (op \in {"parseFirstCue", "parseMedia"} /\ trace.err = "none"
     /\ (Len(Mdats) = 0 \/ ~trace.sawMDAT)) =>
    /\ ret = InvalidContainer
    /\ trace.decoderCalls = <<>>
    /\ Len(Mdats) = 0
    /\ ~trace.sawMDAT

\* C4 witness: a traversal over boxes none of which is an mdat has completed.
C4_Witness ==
  /\ op \in {"parseFirstCue", "parseMedia"}
  /\ trace.err = "none"
  /\ Len(trace.visited) = 2
  /\ Len(Mdats) = 0
  /\ ret = InvalidContainer

\* C7: once a handler has invoked stop, no further handler is invoked in
\* that parse call: the handler that stopped is the last one invoked, as
\* are the 'stpp' handler of parseInit and the 'mdat' handler of first-cue
\* mode, and no box is left by the traversal afterwards.
C7_StopHalts ==
  /\ trace.stopAt # 0 => Len(trace.calls) = trace.stopAt
  /\ \A i \in 1 .. Len(trace.calls) :
       (trace.calls[i].cb = "onStpp" \/ (trace.partial /\ trace.calls[i].cb = "onMdat"))
         => /\ i = Len(trace.calls)
            /\ trace.done
            /\ \A k \in 1 .. Len(trace.visited) :
                 trace.visited[k].start < trace.calls[i].start

\* C7 witness: parseInit has stopped at the first of two 'stpp' entries of a
\* stream whose second top-level box is registered too.
C7_Witness ==
  /\ op = "parseInit"
  /\ Complete
  /\ Len(layout) = 2
  /\ layout[1] = Chain(<<Stsd(2, <<Entry("stpp"), Entry("stpp")>>)>>)
  /\ layout[2] = Chain(<<Stsd(1, <<Entry("stpp")>>)>>)
  /\ trace.done
  /\ trace.stopAt = 7

\* The record of the traversal leaving top-level box i.
Left(i) ==
  { k \in 1 .. Len(trace.visited) :
      trace.visited[k].path = <<>> /\ trace.visited[k].start = TopStart(i) }

C9_SizeZeroAndExtended ==
  /\ \A k \in 1 .. Len(trace.visited) :
       LET v == trace.visited[k]
       IN  /\ v.size32 = 0 =>
                 (v.size = v.scopeEnd - v.start /\ v.after = v.scopeEnd)
           /\ v.size32 = 1 =>
                 /\ v.hdr = ExtHeaderSize
                 /\ v.size = readUint32(data, v.start + 12)
                 /\ v.start + v.size <= v.scopeEnd => v.after = v.start + v.size
  /\ (op = "parseMedia" /\ Complete) =>
       \A i \in 1 .. Len(layout) :
         layout[i].mode \in {"z", "x"} =>
           \E k \in Left(i) :
             /\ trace.visited[k].after = TopEnd(i)
             /\ trace.visited[k].size32 = (IF layout[i].mode = "z" THEN 0 ELSE 1)

\* C9 witness: a box with an extended size followed by a box of size 0,
\* both left by the traversal.
C9_Witness ==
  /\ op = "parseMedia"
  /\ Complete
  /\ Len(layout) = 2
  /\ layout[1].mode = "x"
  /\ layout[2].mode = "z"
  /\ Len(trace.visited) = 2
  /\ trace.visited[1].after = ExtHeaderSize + 2
  /\ trace.visited[2].after = Len(data)
  /\ ret.kind = "ok"

\* No top-level box of the stream is malformed in itself.
ValidBoxes ==
  \A i \in 1 .. Len(layout) : layout[i] # Chain(<<Stsd(2, <<Entry("wvtt")>>)>>)

\* C10 as stated: for a buffer cut in the middle of a top-level box header,
\* a partial parse returns without error and a non-partial parse signals
\* TruncatedInput.
C10_AsStated ==
  (op # "none" /\ MidHeader /\ ValidBoxes) =>
    IF op = "parseFirstCue"
      THEN trace.err = "none"
      ELSE trace.err = "TruncatedInput"

\* C10 amended: for a buffer of valid boxes cut in the middle of a top-level
\* box header, a partial parse returns without error; a non-partial parse
\* signals TruncatedInput unless a handler has stopped the traversal before
\* the cut header is reached, in which case it returns without error too.
C10_TruncatedHeader ==
  (op # "none" /\ MidHeader /\ ValidBoxes) =>
    IF op = "parseFirstCue"
      THEN trace.err = "none"
      ELSE \/ trace.err = "TruncatedInput" /\ ~trace.done
           \/ trace.err = "none" /\ trace.done /\ op = "parseInit"

\* C10 witness: a non-partial parse has signalled TruncatedInput after a
\* handler ran, on a buffer cut in a header.
C10_Witness ==
  /\ op = "parseMedia"
  /\ MidHeader
  /\ ValidBoxes
  /\ Len(trace.decoderCalls) = 1
  /\ ret = Thrown("TruncatedInput")

----------------------------------------------------------------------------
(* Claims about the init-data normalisation.                               *)

\* The well-formed pssh boxes at the head of the stream that lie wholly
\* within the init data: the scan stops at the first box that does not.
WholeBoxes ==
  { i \in 1 .. Len(layout) :
      \A j \in 1 .. i :
        /\ layout[j].mode = "n"
        /\ TopStart(j) + Len(SerBox(layout[j])) <= Len(initData.bytes) }

Regions == [i \in 1 .. Cardinality(WholeBoxes) |-> SerBox(layout[i])]

\* The first occurrence of every distinct region, concatenated in order.
FirstOccurrences ==
  concat(SelectSeq(Regions,
                   LAMBDA r : \A i \in 1 .. Len(Regions) :
                                Regions[i] = r =>
                                  \A j \in 1 .. i - 1 : Regions[j] # r))

\* A call has produced normalised init data from a non-null argument.
Normalising == op \in {"normaliseInitData_", "onMsNeedKey_"} /\ ~initData.isNull

\* C5: with two or more boundaries the init data is rebuilt from the
\* regions [start, end), keeping the first occurrence of every distinct
\* region in order; two identical 32-byte boxes give one 32-byte result.
C5_AsStated ==
  (Normalising /\ Cardinality(WholeBoxes) >= 2) =>
    /\ normalised.bytes = FirstOccurrences
    /\ (Len(layout) = 2 /\ layout[1] = layout[2] /\ cut = 0
          /\ Len(SerBox(layout[1])) = 32)
         => normalised.bytes = SerBox(layout[1])

\* C6: with zero or one boundary, and for null init data, the init data is
\* returned as it is: the same array, with the same bytes.
C6_SingleUnchanged ==
  /\ (op = "normaliseInitData_"
        /\ (initData.isNull \/ Cardinality(WholeBoxes) <= 1))
       => normalised = SameArray(initData)
  /\ (op = "onMsNeedKey_" /\ encrypted.fired /\ Cardinality(WholeBoxes) <= 1)
       => encrypted.initData = SameArray(initData)

\* C6 witness: init data of one whole pssh box followed by a cut one has
\* been normalised.
C6_Witness ==
  /\ op = "normaliseInitData_"
  /\ ~initData.isNull
  /\ Len(layout) = 2
  /\ Cardinality(WholeBoxes) = 1
  /\ Len(initData.bytes) > 32
  /\ normalised.same

\* The boundaries the scanner finds in the init data of the last call.
Scanned == dataBoundaries(initData.bytes)

\* C11: the boundary scan ends without an error for every init data, and
\* its records are a contiguous partition of a prefix of the buffer: the
\* first starts at 0, each starts where the one before ends, every end is
\* within the buffer; the scan stops at the first malformed or overrunning
\* header and keeps the records of the boxes before it.
C11_PrefixPartition ==
  Normalising =>
    /\ Len(Scanned) = Cardinality(WholeBoxes)
    /\ \A i \in 1 .. Len(Scanned) :
         /\ Scanned[i].start = (IF i = 1 THEN 0 ELSE Scanned[i - 1].end)
         /\ Scanned[i].start = TopStart(i)
         /\ Scanned[i].end = TopStart(i) + Len(SerBox(layout[i]))
         /\ Scanned[i].end <= Len(initData.bytes)

\* C11 witness: init data with a malformed box between two well-formed
\* ones has been scanned, and the record of the first box is kept.
C11_Witness ==
  /\ Normalising
  /\ Len(layout) = 3
  /\ layout[2] = BadPssh
  /\ layout[3] # BadPssh
  /\ cut = 0
  /\ Len(Scanned) = 1
  /\ Scanned[1].end = 32

----------------------------------------------------------------------------
(* Claims about the buffers and the instance across calls.                 *)

ParseOps == {"parseInit", "parseFirstCue", "parseMedia"}

PsshOps == {"normaliseInitData_", "onMsNeedKey_"}

RequiredSeen == IF op = "parseInit" THEN Invoked("onStpp") ELSE Invoked("onMdat")

\* C14: an error of the traversal comes out of parseInit and of the media
\* extraction as it was raised; INVALID_MP4_TTML is signalled only when the
\* traversal has completed without error and has never met the required
\* box.  A buffer of valid boxes cut in a box header makes parseInit and
\* parseMedia signal TruncatedInput unless a handler stopped before.
C14_ErrorsPropagate ==
  op \in ParseOps =>
    /\ trace.err # "none" => ret = Thrown(trace.err)
    /\ ret = InvalidContainer => (trace.err = "none" /\ ~RequiredSeen)
    /\ ret.kind = "error"
         => ret.code \in {"TruncatedInput", "MalformedBox", "INVALID_MP4_TTML"}
    /\ (op = "parseMedia" /\ MidHeader /\ ValidBoxes)
         => ret = Thrown("TruncatedInput")

\* C14 witness: a full extraction has decoded an mdat box and then met a
\* box that overruns the buffer: the traversal's error is what comes out.
C14_Witness ==
  /\ op = "parseMedia"
  /\ Invoked("onMdat")
  /\ ret = Thrown("MalformedBox")

----------------------------------------------------------------------------
(* Claims about the sessions of the polyfill.                              *)

\* The last call or handler failed the assertion with this message.
Failed(message) == \E i \in 1 .. Len(step.failed) : step.failed[i] = message

\* The promises of a kind that are pending.
Pending(kind) ==
  { p \in 1 .. Len(promises) :
      promises[p].kind = kind /\ promises[p].state = "pending" }

Handlers == {"onMsKeyMessage_", "onMsKeyAdded_", "onMsKeyError_"}

\* C15 as stated: createSession throws a TypeError for every session type
\* other than 'temporary' or an omitted one.
C15_AsStated ==
  step.name = "createSession" =>
    (step.thrown = "none" <=> step.arg \in {"temporary", "undefined"})

\* C15 amended: createSession takes an omitted or empty session type as
\* 'temporary'; for every other type than 'temporary' it throws a TypeError
\* and creates no session (the session, promises and native sessions there
\* are stay as they are); for 'temporary' it returns a new session with
\* sessionId '', no native session, no listener, no promise of
\* generateRequest or update, a pending 'closed' promise and an empty
\* key-status map.
C15_CreateSession ==
  [][ step'.name = "createSession" =>
        IF step'.arg \in {"temporary", "undefined", ""}
          THEN /\ step'.thrown = "none"
               /\ session'.created
               /\ session'.sessionId = ""
               /\ session'.nativeMediaKeySession_ = 0
               /\ session'.listening = {}
               /\ session'.generateRequestPromise_ = 0
               /\ session'.updatePromise_ = 0
               /\ session'.closed = "pending"
               /\ session'.keyStatuses = [size |-> 0, status_ |-> "undefined"]
               /\ promises' = <<>>
               /\ step'.dispatched = <<>>
          ELSE /\ step'.thrown = "TypeError"
               /\ UNCHANGED <<session, promises, natives>> ]_vars

\* C15 witness: createSession('persistent-license') has thrown while an
\* earlier session with a pending generateRequest promise exists.
C15_Witness ==
  /\ step.name = "createSession"
  /\ step.arg = "persistent-license"
  /\ step.thrown = "TypeError"
  /\ session.created
  /\ session.generateRequestPromise_ # 0
  /\ Pending("generateRequest") # {}

\* C16: whenever mskeyadded is handled, the generateRequest promise and the
\* update promise are not both set: the first assertion of onMsKeyAdded_
\* never fails.
C16_AsStated ==
  step.name = "onMsKeyAdded_" =>
    ~Failed("updatePromise_ and generateRequestPromise_ set in onMsKeyAdded_")

\* C17: at every mskeymessage the generateRequest promise is set, and at
\* every mskeyadded handled without a generateRequest promise the update
\* promise is set: the assertion of onMsKeyMessage_ and the second
\* assertion of onMsKeyAdded_ never fail.
C17_AsStated ==
  /\ step.name = "onMsKeyMessage_" =>
       ~Failed("generateRequestPromise_ not set in onMsKeyMessage_")
  /\ step.name = "onMsKeyAdded_" =>
       ~Failed("updatePromise_ not set in onMsKeyAdded_")

\* C18: a generateRequest promise is rejected at once when the native
\* createSession throws; once a native event has been handled no promise
\* returned by generateRequest() is pending any more; and a pending one is
\* the promise the session holds, the only one an event can settle:
\* however many times generateRequest() was called.
C18_AsStated ==
  /\ (step.name = "generateRequest" /\ step.arg = Native(TRUE))
       => promises[step.returned].state = "rejected"
  /\ step.name \in Handlers => Pending("generateRequest") = {}
  /\ Pending("generateRequest") \subseteq {session.generateRequestPromise_}

C20_AsStated ==
  [][ step'.name = "onMsKeyError_" =>
        LET g == session.generateRequestPromise_
            u == session.updatePromise_
            code == natives'[step'.target].error
        IN  IF g # 0
              THEN /\ promises'[g].state = "rejected"
                   /\ session'.generateRequestPromise_ = 0
                   /\ session'.updatePromise_ = u
                   /\ session'.keyStatuses = session.keyStatuses
                   /\ step'.dispatched = <<>>
              ELSE IF u # 0
                THEN /\ promises'[u].state = "rejected"
                     /\ session'.updatePromise_ = 0
                     /\ session'.keyStatuses = session.keyStatuses
                     /\ step'.dispatched = <<>>
                ELSE /\ session'.keyStatuses.status_ =
                          (IF code \in {MS_MEDIA_KEYERR_OUTPUT,
                                         MS_MEDIA_KEYERR_HARDWARECHANGE}
                             THEN "output-not-allowed"
                             ELSE "internal-error")
                     /\ step'.dispatched =
                          <<[type |-> "keystatuseschange", messageType |-> "none"]>>
    ]_vars

\* C21: when close() succeeds (the native close returns), the 'closed'
\* promise is resolved and no listener is left; when the native close
\* throws, or there is no native session, 'closed' is rejected and the
\* listeners stay as they are; and once 'closed' is resolved no handler of
\* a native event runs any more.
C21_AsStated ==
  [][ /\ step'.name = "close" =>
           IF step'.arg = Native(FALSE) /\ session.nativeMediaKeySession_ # 0
             THEN /\ session'.closed = "resolved"
                  /\ session'.listening = {}
             ELSE /\ session'.closed = "rejected"
                  /\ session'.listening = session.listening
      /\ step'.name \in Handlers => session.closed # "resolved"
    ]_vars

====
